---- MODULE Spec2Model ----
(***************************************************************************)
(* Model of src/src/static/app.js: the browser client of the activities    *)
(* service.  The state is the closure state of the DOMContentLoaded        *)
(* callback (authToken, isAuthenticated), the persisted token in           *)
(* localStorage, the DOM elements the handlers write, the pending          *)
(* setTimeout callbacks, the HTTP requests in flight and the server's      *)
(* roster.  Each action is one run of a handler between two awaits: the    *)
(* event loop runs one callback at a time, and between `await fetch(..)`   *)
(* and `await response.json()` no handler reads or writes shared state, so *)
(* the continuation after a response is one atomic step.                   *)
(*                                                                         *)
(* Event delivery is not restricted by the visibility or the disabled      *)
(* state of a control: a handler can run whenever its element exists.      *)
(* The login modal's own visibility and the form resets are not part of    *)
(* the state.                                                              *)
(***************************************************************************)
EXTENDS Integers, Sequences, FiniteSets, TLC

\* ------------------------------------------------------------------ bounds
\* Form submissions and button clicks of the user in one page instance.
MaxUserEvents == 2

\* ------------------------------------------------------------- value spaces
\* JavaScript null / undefined for a value that is otherwise a string.
Null == "<null>"
\* The state an element has from the page's markup, before any handler wrote it.
Markup == "<markup>"

Tokens == {"tokA", "tokB"}
Usernames == {"teacher1"}
\* `detail` of an error body: missing, or a text.
Details == {Null, "Invalid credentials"}
Emails == {"a@x.com"}
\* The activities of the server, in the key order of the /activities body.
ActivityNames == <<"Chess Club">>
max_participants == 2

\* Dismissal delays, in units of 1000 ms.
SessionDelay == 3
ActionDelay == 5

\* JavaScript truthiness of a string-or-null value.
Truthy(v) == v # Null /\ v # ""

\* ------------------------------------------------------------------- state
VARIABLES
    localStorage,     \* localStorage["authToken"]: a token or Null
    authToken,        \* the closure variable authToken
    isAuthenticated,  \* the closure variable isAuthenticated
    authUI,           \* what updateUIForAuth writes: buttons, notice, user info
    usernameDisplay,  \* usernameDisplay.textContent
    loginMessage,     \* loginMessage: text, className, hidden
    messageDiv,       \* messageDiv: text, className, hidden
    timers,           \* pending setTimeout callbacks that hide messageDiv
    activitiesList,   \* activitiesList: the loading markup, the cards, or the error
    activitySelect,   \* the options appended to activitySelect
    net,              \* HTTP requests in flight, each with the server's answer
    serverRoster,     \* the server's participants, per activity
    userEvents,       \* submissions and clicks so far (bounds the run)
    cleanRun,         \* history: no register/unregister/refresh has failed so far
    last              \* history: the handler step just taken and its inputs

vars == <<localStorage, authToken, isAuthenticated, authUI, usernameDisplay,
          loginMessage, messageDiv, timers, activitiesList,
          activitySelect, net, serverRoster, userEvents, cleanRun, last>>

\* ---------------------------------------------------------------- helpers
Ev(op, res, tok, user, detail) ==
    [op |-> op, res |-> res, tok |-> tok, user |-> user, detail |-> detail]

Ev0(op, res) == Ev(op, res, Null, Null, Null)

EmptyRoster == [i \in 1..Len(ActivityNames) |-> <<>>]

\* A request in flight.  status is "sent" until the server has handled it.
Req(kind, token, activity, email) ==
    [kind |-> kind, token |-> token, activity |-> activity, email |-> email,
     status |-> "sent", snapshot |-> EmptyRoster]

RemoveAt(s, i) == [j \in 1..(Len(s) - 1) |-> IF j < i THEN s[j] ELSE s[j + 1]]

Indices(kind) == {i \in 1..Len(net) : net[i].kind = kind}

Pending(kind) == Indices(kind) # {}

NumRequests(n, kind) == Cardinality({i \in 1..Len(n) : n[i].kind = kind})

ActivityIndex(name) ==
    IF \E i \in 1..Len(ActivityNames) : ActivityNames[i] = name
    THEN CHOOSE i \in 1..Len(ActivityNames) : ActivityNames[i] = name
    ELSE 0

InSeq(x, s) == \E i \in 1..Len(s) : s[i] = x

Without(s, x) == SelectSeq(s, LAMBDA y : y # x)

\* ------------------------------------------------------------- rendering
\* The cards fetchActivities builds from a response body: one per activity, in
\* the body's key order, each participant with a delete button whose display
\* is set from isAuthenticated at the time of rendering.
RenderCards(snapshot, auth) ==
    [i \in 1..Len(ActivityNames) |->
        [name |-> ActivityNames[i],
         spotsLeft |-> max_participants - Len(snapshot[i]),
         participants |->
            [j \in 1..Len(snapshot[i]) |->
                [email |-> snapshot[i][j],
                 display |-> IF auth THEN "inline" ELSE "none"]]]]

\* The options fetchActivities appends to the selector, one per activity.
RenderOptions(snapshot) == ActivityNames

\* updateDeleteButtonsVisibility: every delete button of the document.
updateDeleteButtonsVisibility(list, auth) ==
    [list EXCEPT !.cards =
        [i \in 1..Len(list.cards) |->
            [list.cards[i] EXCEPT !.participants =
                [j \in 1..Len(list.cards[i].participants) |->
                    [list.cards[i].participants[j] EXCEPT
                        !.display = IF auth THEN "inline" ELSE "none"]]]]]

LoggedInUI ==
    [loginBtn |-> "hidden", userInfo |-> "shown", authNotice |-> "hidden",
     signupSubmitBtn |-> "enabled"]

LoggedOutUI ==
    [loginBtn |-> "shown", userInfo |-> "hidden", authNotice |-> "shown",
     signupSubmitBtn |-> "disabled"]

MarkupUI ==
    [loginBtn |-> Markup, userInfo |-> Markup, authNotice |-> Markup,
     signupSubmitBtn |-> Markup]


\* updateUIForAuth without its call of updateDeleteButtonsVisibility.
updateUIForAuthKeepsButtons(username) ==
    /\ authUI' = IF Truthy(username) THEN LoggedInUI ELSE LoggedOutUI
    /\ usernameDisplay' = IF Truthy(username) THEN username ELSE usernameDisplay
    /\ activitiesList' = activitiesList

\* updateUIForAuth(username), called after isAuthenticated has been assigned.
updateUIForAuth(username) ==
    /\ authUI' = IF Truthy(username) THEN LoggedInUI ELSE LoggedOutUI
    /\ usernameDisplay' = IF Truthy(username) THEN username ELSE usernameDisplay
    /\ activitiesList' = updateDeleteButtonsVisibility(activitiesList, isAuthenticated')

\* ---------------------------------------------------------- notifications
\* A pending timer: rem is the time left; own says that the notification now
\* in messageDiv is the one that scheduled it (history: the code's timers all
\* run the same callback and carry no owner).
Stale(ts) == {[rem |-> t.rem, own |-> FALSE] : t \in ts}

\* messageDiv.textContent / className / classList.remove("hidden"), followed by
\* setTimeout(hide, delay) when delay > 0.
Notify(text, className, delay) ==
    /\ messageDiv' = [text |-> text, className |-> className, hidden |-> FALSE]
    /\ timers' = Stale(timers) \cup
                 (IF delay > 0 THEN {[rem |-> delay, own |-> TRUE]} ELSE {})

\* A notification without a dismissal timer (the catch branches).
NotifyNoTimer(text, className) == Notify(text, className, 0)

\* ------------------------------------------------------------ startup
LoadFailure == "<p>Failed to load activities. Please try again later.</p>"

\* The tokens an earlier page instance may have left in localStorage.
PersistedTokens == {"tokA"}

\* The server's rosters a page instance may start against.
InitialRosters == {[i \in 1..Len(ActivityNames) |-> p] : p \in {<<"a@x.com">>}}

\* Startup with `await checkAuth()` before fetchActivities(): with a stored
\* token the roster is not requested until the verification has answered.
InitAwaitsCheckAuth ==
    /\ localStorage \in PersistedTokens \cup {Null}
    /\ authToken = localStorage
    /\ isAuthenticated = FALSE
    /\ authUI = IF Truthy(authToken) THEN MarkupUI ELSE LoggedOutUI
    /\ usernameDisplay = Markup
    /\ loginMessage = [text |-> Markup, className |-> Markup, hidden |-> TRUE]
    /\ messageDiv = [text |-> Markup, className |-> Markup, hidden |-> TRUE]
    /\ timers = {}
    /\ activitiesList = [html |-> Markup, cards |-> <<>>]
    /\ activitySelect = <<>>
    /\ net = IF Truthy(authToken) THEN <<Req("verify", authToken, "", "")>>
                                  ELSE <<Req("activities", Null, "", "")>>
    /\ serverRoster \in InitialRosters
    /\ userEvents = 0
    /\ cleanRun = TRUE
    /\ last = Ev0("init", "-")

\* The state after the DOMContentLoaded callback has run to its end: authToken
\* read from localStorage, checkAuth() run up to its await (or to its end when
\* no token is stored), fetchActivities() run up to its await.  The message
\* areas start hidden, as their first use by the handlers
\* (classList.remove("hidden")) assumes.
Init ==
    /\ localStorage \in PersistedTokens \cup {Null}
    /\ authToken = localStorage
    /\ isAuthenticated = FALSE
    /\ authUI = IF Truthy(authToken) THEN MarkupUI ELSE LoggedOutUI
    /\ usernameDisplay = Markup
    /\ loginMessage = [text |-> Markup, className |-> Markup, hidden |-> TRUE]
    /\ messageDiv = [text |-> Markup, className |-> Markup, hidden |-> TRUE]
    /\ timers = {}
    /\ activitiesList = [html |-> Markup, cards |-> <<>>]
    /\ activitySelect = <<>>
    /\ net = (IF Truthy(authToken) THEN <<Req("verify", authToken, "", "")>> ELSE <<>>)
             \o <<Req("activities", Null, "", "")>>
    /\ serverRoster \in InitialRosters
    /\ userEvents = 0
    /\ cleanRun = TRUE
    /\ last = Ev0("init", "-")

\* ------------------------------------------------------------ checkAuth
\* result.authenticated is truthy (lines 32-34).
CheckAuthAuthenticated(username) ==
    /\ isAuthenticated' = TRUE
    /\ updateUIForAuth(username)
    /\ UNCHANGED <<localStorage, authToken>>

\* CheckAuthInvalid without localStorage.removeItem("authToken").
CheckAuthInvalidKeepsStored ==
    /\ authToken' = Null
    /\ isAuthenticated' = FALSE
    /\ updateUIForAuth(Null)
    /\ UNCHANGED localStorage

\* result.authenticated is falsy (lines 35-40).
CheckAuthInvalid ==
    /\ localStorage' = Null
    /\ authToken' = Null
    /\ isAuthenticated' = FALSE
    /\ updateUIForAuth(Null)


\* CheckAuthCatch failing open: a verification that could not be completed
\* counts as passed.
CheckAuthCatchFailsOpen ==
    /\ isAuthenticated' = TRUE
    /\ updateUIForAuth(Null)
    /\ UNCHANGED <<localStorage, authToken>>

\* fetch rejected, or the body did not parse (lines 42-46).
CheckAuthCatch ==
    /\ isAuthenticated' = FALSE
    /\ updateUIForAuth(Null)
    /\ UNCHANGED <<localStorage, authToken>>

\* The continuation of checkAuth after its awaits.  A body with
\* authenticated = true carries the username of the token's session.
CheckAuthResponse(i) ==
    /\ net[i].kind = "verify"
    /\ net' = RemoveAt(net, i)
    /\ \/ \E res \in {"transport", "parse"} :
            /\ CheckAuthCatch
            /\ last' = Ev("checkAuth", res, net[i].token, Null, Null)
       \/ \E u \in Usernames :
            /\ CheckAuthAuthenticated(u)
            /\ last' = Ev("checkAuth", "authenticated", net[i].token, u, Null)
       \/ /\ CheckAuthInvalid
          /\ last' = Ev("checkAuth", "notAuthenticated", net[i].token, Null, Null)
    /\ UNCHANGED <<loginMessage, messageDiv, timers,
                   activitySelect, serverRoster, userEvents, cleanRun>>

\* ---------------------------------------------------------------- login
\* loginForm submit, up to `await fetch("/auth/login")` (lines 105-118).
LoginSubmit ==
    /\ userEvents < MaxUserEvents
    /\ userEvents' = userEvents + 1
    /\ net' = Append(net, Req("login", Null, "", ""))
    /\ last' = Ev0("login", "sent")
    /\ UNCHANGED <<localStorage, authToken, isAuthenticated, authUI, usernameDisplay,
                   loginMessage, messageDiv, timers, activitiesList,
                   activitySelect, serverRoster, cleanRun>>

\* LoginOk with localStorage.setItem run before authToken is assigned: the old
\* value of authToken is what gets persisted.
LoginOkStoresOldToken(token, username) ==
    /\ authToken' = token
    /\ localStorage' = authToken
    /\ isAuthenticated' = TRUE
    /\ updateUIForAuth(username)
    /\ loginMessage' = [loginMessage EXCEPT !.hidden = TRUE]
    /\ Notify("Login successful! You can now register students.", "success",
              SessionDelay)

\* response.ok (lines 122-137).
LoginOk(token, username) ==
    /\ authToken' = token
    /\ localStorage' = token
    /\ isAuthenticated' = TRUE
    /\ updateUIForAuth(username)
    /\ loginMessage' = [loginMessage EXCEPT !.hidden = TRUE]
    /\ Notify("Login successful! You can now register students.", "success",
              SessionDelay)

\* LoginRejected that also drops the persisted token.
LoginRejectedClearsToken(detail) ==
    /\ loginMessage' = [text |-> IF Truthy(detail) THEN detail ELSE "Login failed",
                        className |-> "error", hidden |-> FALSE]
    /\ localStorage' = Null
    /\ UNCHANGED <<authToken, isAuthenticated, authUI, usernameDisplay,
                   messageDiv, timers, activitiesList>>

\* Not response.ok (lines 138-142).
LoginRejected(detail) ==
    /\ loginMessage' = [text |-> IF Truthy(detail) THEN detail ELSE "Login failed",
                        className |-> "error", hidden |-> FALSE]
    /\ UNCHANGED <<localStorage, authToken, isAuthenticated, authUI, usernameDisplay,
                   messageDiv, timers, activitiesList>>

\* fetch rejected, or the body did not parse (lines 143-148).
LoginCatch ==
    /\ loginMessage' = [text |-> "Login failed. Please try again.",
                        className |-> "error", hidden |-> FALSE]
    /\ UNCHANGED <<localStorage, authToken, isAuthenticated, authUI, usernameDisplay,
                   messageDiv, timers, activitiesList>>

\* The continuation of the login handler after its awaits.
LoginResponse(i) ==
    /\ net[i].kind = "login"
    /\ net' = RemoveAt(net, i)
    /\ \/ \E token \in Tokens, username \in Usernames :
            /\ LoginOk(token, username)
            /\ last' = Ev("login", "ok", token, username, Null)
       \/ \E detail \in Details :
            /\ LoginRejected(detail)
            /\ last' = Ev("login", "status", Null, Null, detail)
       \/ \E res \in {"transport", "parse"} :
            /\ LoginCatch
            /\ last' = Ev0("login", res)
    /\ UNCHANGED <<activitySelect, serverRoster, userEvents, cleanRun>>

\* --------------------------------------------------------------- logout
\* logoutBtn click, up to `await fetch("/auth/logout")` (lines 152-159).
LogoutClick ==
    /\ userEvents < MaxUserEvents
    /\ userEvents' = userEvents + 1
    /\ net' = Append(net, Req("logout", authToken, "", ""))
    /\ last' = Ev0("logout", "sent")
    /\ UNCHANGED <<localStorage, authToken, isAuthenticated, authUI, usernameDisplay,
                   loginMessage, messageDiv, timers, activitiesList,
                   activitySelect, serverRoster, cleanRun>>


\* LogoutCleanup that removes the stored token only and leaves the variable.
LogoutCleanupKeepsAuthToken ==
    /\ localStorage' = Null
    /\ UNCHANGED authToken
    /\ isAuthenticated' = FALSE
    /\ updateUIForAuth(Null)
    /\ Notify("Logged out successfully.", "success", SessionDelay)

\* The local cleanup after the try/catch (lines 164-174).
LogoutCleanup ==
    /\ localStorage' = Null
    /\ authToken' = Null
    /\ isAuthenticated' = FALSE
    /\ updateUIForAuth(Null)
    /\ Notify("Logged out successfully.", "success", SessionDelay)

\* LogoutResponse with the cleanup inside the try block: a rejected fetch
\* skips it.
LogoutResponseCleanupInTry(i) ==
    /\ net[i].kind = "logout"
    /\ net' = RemoveAt(net, i)
    /\ \/ /\ \E res \in {"ok", "status"} : last' = Ev0("logout", res)
          /\ LogoutCleanup
       \/ /\ last' = Ev0("logout", "transport")
          /\ UNCHANGED <<localStorage, authToken, isAuthenticated, authUI,
                         usernameDisplay, messageDiv, timers, activitiesList>>
    /\ UNCHANGED <<loginMessage, activitySelect, serverRoster,
                   userEvents, cleanRun>>

\* The continuation of the logout handler: the fetch resolved (with any status;
\* the response is not read) or rejected (caught and logged).
LogoutResponse(i) ==
    /\ net[i].kind = "logout"
    /\ net' = RemoveAt(net, i)
    /\ \E res \in {"ok", "status", "transport"} : last' = Ev0("logout", res)
    /\ LogoutCleanup
    /\ UNCHANGED <<loginMessage, activitySelect, serverRoster,
                   userEvents, cleanRun>>

\* ------------------------------------------------------- fetchActivities
\* The body parsed: the list is cleared and rebuilt, the options are appended
\* to the selector, the delete buttons get their listeners (lines 181-232).
FetchActivitiesRender(snapshot) ==
    /\ activitiesList' = [html |-> "cards",
                          cards |-> RenderCards(snapshot, isAuthenticated)]
    /\ activitySelect' = activitySelect \o RenderOptions(snapshot)


\* FetchActivitiesCatch that reports the failure and keeps the cards on display.
FetchActivitiesCatchKeepsCards ==
    /\ activitiesList' = [activitiesList EXCEPT !.html = LoadFailure]
    /\ UNCHANGED activitySelect

\* fetch rejected, or the body did not parse (lines 233-237).
FetchActivitiesCatch ==
    /\ activitiesList' = [html |-> LoadFailure, cards |-> <<>>]
    /\ UNCHANGED activitySelect

\* The continuation of fetchActivities after its awaits.  The transport can
\* fail before or after the server handled the request.
ActivitiesResponse(i) ==
    /\ net[i].kind = "activities"
    /\ net' = RemoveAt(net, i)
    /\ \/ /\ net[i].status = "ok"
          /\ FetchActivitiesRender(net[i].snapshot)
          /\ last' = Ev0("fetchActivities", "ok")
          /\ UNCHANGED cleanRun
       \/ /\ \E res \in {"transport"} \cup
                        (IF net[i].status = "ok" THEN {"parse"} ELSE {}) :
                last' = Ev0("fetchActivities", res)
          /\ FetchActivitiesCatch
          /\ cleanRun' = FALSE
    /\ UNCHANGED <<localStorage, authToken, isAuthenticated, authUI, usernameDisplay,
                   loginMessage, messageDiv, timers,
                   serverRoster, userEvents>>

\* --------------------------------------------------- register / unregister
\* result.message of a success body.
ServerMessage == "<result.message>"

\* The value of the activity selector: one of its options ("" when it has none).
SelectValues ==
    IF activitySelect = <<>> THEN {""}
    ELSE {activitySelect[k] : k \in 1..Len(activitySelect)}

\* GateDenied without its `return`: the notice is shown and the handler goes
\* on to issue the request.
GateDeniedNoReturn(op, text) ==
    /\ ~isAuthenticated
    /\ userEvents < MaxUserEvents
    /\ userEvents' = userEvents + 1
    /\ Notify(text, "error", ActionDelay)
    /\ net' = Append(net, Req(op, authToken, "", ""))
    /\ last' = Ev0(op, "denied")
    /\ UNCHANGED <<localStorage, authToken, isAuthenticated, authUI, usernameDisplay,
                   loginMessage, activitiesList, activitySelect,
                   serverRoster, cleanRun>>

\* The gate of both handlers failed (lines 242-250, 300-308).
GateDenied(op, text) ==
    /\ ~isAuthenticated
    /\ userEvents < MaxUserEvents
    /\ userEvents' = userEvents + 1
    /\ Notify(text, "error", ActionDelay)
    /\ last' = Ev0(op, "denied")
    /\ UNCHANGED <<localStorage, authToken, isAuthenticated, authUI, usernameDisplay,
                   loginMessage, activitiesList, activitySelect,
                   net, serverRoster, cleanRun>>

\* The gate passed: the request is issued (lines 252-267, 310-324).
MutationSend(op, activity, email) ==
    /\ isAuthenticated
    /\ userEvents < MaxUserEvents
    /\ net' = Append(net, Req(op, authToken, activity, email))
    /\ userEvents' = userEvents + 1
    /\ last' = Ev0(op, "sent")
    /\ UNCHANGED <<localStorage, authToken, isAuthenticated, authUI, usernameDisplay,
                   loginMessage, messageDiv, timers, activitiesList,
                   activitySelect, serverRoster, cleanRun>>

\* signupForm submit, up to its await (lines 297-324).
SignupSubmit ==
    \/ GateDenied("signup", "Please login as a teacher to register students.")
    \/ \E email \in Emails, activity \in SelectValues :
            MutationSend("signup", activity, email)

\* handleUnregister on a rendered delete button, up to its await (lines 241-267).
DeleteClick(c, p) ==
    /\ c \in 1..Len(activitiesList.cards)
    /\ p \in 1..Len(activitiesList.cards[c].participants)
    /\ \/ GateDenied("unregister", "Please login as a teacher to unregister students.")
       \/ MutationSend("unregister", activitiesList.cards[c].name,
                       activitiesList.cards[c].participants[p].email)

\* MutationOk without the call of fetchActivities().
MutationOkNoRefresh(i) ==
    /\ net' = RemoveAt(net, i)
    /\ Notify(ServerMessage, "success", ActionDelay)
    /\ UNCHANGED <<activitiesList, activitySelect, cleanRun>>

\* response.ok: the message, then fetchActivities() up to its await, then the
\* dismissal timer (lines 271-276 and 282-287; 328-334 and 340-345).
MutationOk(i) ==
    /\ net' = Append(RemoveAt(net, i), Req("activities", Null, "", ""))
    /\ Notify(ServerMessage, "success", ActionDelay)
    /\ UNCHANGED <<activitiesList, activitySelect, cleanRun>>

\* MutationRejected that refreshes the roster all the same.
MutationRejectedRefreshes(i, detail) ==
    /\ net' = Append(RemoveAt(net, i), Req("activities", Null, "", ""))
    /\ Notify(IF Truthy(detail) THEN detail ELSE "An error occurred", "error",
              ActionDelay)
    /\ cleanRun' = FALSE
    /\ UNCHANGED <<activitiesList, activitySelect>>

\* Not response.ok (lines 277-287, 335-345).
MutationRejected(i, detail) ==
    /\ net' = RemoveAt(net, i)
    /\ Notify(IF Truthy(detail) THEN detail ELSE "An error occurred", "error",
              ActionDelay)
    /\ cleanRun' = FALSE
    /\ UNCHANGED <<activitiesList, activitySelect>>

\* fetch rejected, or the body did not parse (lines 288-293, 346-351).
MutationCatch(i, text) ==
    /\ net' = RemoveAt(net, i)
    /\ NotifyNoTimer(text, "error")
    /\ cleanRun' = FALSE
    /\ UNCHANGED <<activitiesList, activitySelect>>

\* The continuation of either handler after its awaits.
MutationResponse(i, op, failText) ==
    /\ net[i].kind = op
    /\ \/ /\ net[i].status = "ok"
          /\ MutationOk(i)
          /\ last' = Ev0(op, "ok")
       \/ /\ net[i].status = "rejected"
          /\ \E detail \in Details :
                /\ MutationRejected(i, detail)
                /\ last' = Ev(op, "status", Null, Null, detail)
       \/ /\ \E res \in {"transport"} \cup
                        (IF net[i].status # "sent" THEN {"parse"} ELSE {}) :
                last' = Ev0(op, res)
          /\ MutationCatch(i, failText)
    /\ UNCHANGED <<localStorage, authToken, isAuthenticated, authUI, usernameDisplay,
                   loginMessage, serverRoster, userEvents>>

SignupResponse(i) == MutationResponse(i, "signup", "Failed to sign up. Please try again.")

UnregisterResponse(i) ==
    MutationResponse(i, "unregister", "Failed to unregister. Please try again.")

\* --------------------------------------------------------------- server
\* The service behind the endpoints: it may accept a signup of an email not
\* yet in an activity with room, and an unregister of an email that is in
\* it; it may reject any request; it answers /activities with its roster.
ServerHandle(i) ==
    /\ net[i].status = "sent"
    /\ net[i].kind \in {"signup", "unregister", "activities"}
    /\ LET r == net[i]
           a == ActivityIndex(r.activity)
       IN \/ /\ r.kind = "signup"
             /\ a # 0
             /\ ~InSeq(r.email, serverRoster[a])
             /\ Len(serverRoster[a]) < max_participants
             /\ serverRoster' = [serverRoster EXCEPT ![a] = Append(@, r.email)]
             /\ net' = [net EXCEPT ![i].status = "ok"]
          \/ /\ r.kind = "unregister"
             /\ a # 0
             /\ InSeq(r.email, serverRoster[a])
             /\ serverRoster' = [serverRoster EXCEPT ![a] = Without(@, r.email)]
             /\ net' = [net EXCEPT ![i].status = "ok"]
          \/ /\ r.kind \in {"signup", "unregister"}
             /\ net' = [net EXCEPT ![i].status = "rejected"]
             /\ UNCHANGED serverRoster
          \/ /\ r.kind = "activities"
             /\ net' = [net EXCEPT ![i].status = "ok", ![i].snapshot = serverRoster]
             /\ UNCHANGED serverRoster
    /\ last' = Ev0("server", "-")
    /\ UNCHANGED <<localStorage, authToken, isAuthenticated, authUI, usernameDisplay,
                   loginMessage, messageDiv, timers, activitiesList,
                   activitySelect, userEvents, cleanRun>>

\* --------------------------------------------------------------- timers
\* A due setTimeout callback runs: messageDiv.classList.add("hidden").
TimerFire(t) ==
    /\ t \in timers
    /\ t.rem = 0
    /\ timers' = timers \ {t}
    /\ messageDiv' = [messageDiv EXCEPT !.hidden = TRUE]
    /\ last' = Ev0("timer", IF t.own THEN "own" ELSE "stale")
    /\ UNCHANGED <<localStorage, authToken, isAuthenticated, authUI, usernameDisplay,
                   loginMessage, activitiesList, activitySelect,
                   net, serverRoster, userEvents, cleanRun>>

\* 1000 ms pass.  A due callback runs before time moves on.
Tick ==
    /\ timers # {}
    /\ \A t \in timers : t.rem > 0
    /\ timers' = {[t EXCEPT !.rem = @ - 1] : t \in timers}
    /\ last' = Ev0("tick", "-")
    /\ UNCHANGED <<localStorage, authToken, isAuthenticated, authUI, usernameDisplay,
                   loginMessage, messageDiv, activitiesList,
                   activitySelect, net, serverRoster, userEvents, cleanRun>>

\* ------------------------------------------------------------ the system
Next ==
    \/ \E i \in 1..Len(net) : CheckAuthResponse(i)
    \/ LoginSubmit
    \/ \E i \in 1..Len(net) : LoginResponse(i)
    \/ LogoutClick
    \/ \E i \in 1..Len(net) : LogoutResponse(i)
    \/ SignupSubmit
    \/ \E c \in 1..Len(ActivityNames), p \in 1..max_participants : DeleteClick(c, p)
    \/ \E i \in 1..Len(net) : SignupResponse(i)
    \/ \E i \in 1..Len(net) : UnregisterResponse(i)
    \/ \E i \in 1..Len(net) : ActivitiesResponse(i)
    \/ \E i \in 1..Len(net) : ServerHandle(i)
    \/ \E t \in timers : TimerFire(t)
    \/ Tick

Spec == Init /\ [][Next]_vars

\* The scheduling the browser gives the logout handler: its fetch settles
\* (resolves with some status, or rejects) and the event loop then runs the
\* handler's continuation.
FairSpec == Spec /\ WF_vars(\E i \in 1..Len(net) : LogoutResponse(i))

\* ------------------------------------------------------------ properties
MutationOps == {"signup", "unregister"}

\* A step that runs a handler from its trigger up to its first await or return.
TriggerResults == {"denied", "sent"}

\* A response step that took a handler's error branch.
FailureResults == {"status", "transport", "parse"}

LoginRequired(op) ==
    IF op = "signup" THEN "Please login as a teacher to register students."
    ELSE "Please login as a teacher to unregister students."

\* What the activity list shows of the roster: the list's state and, per card,
\* the activity, the spots left and the participants' emails, in order.
RosterView(list) ==
    [html |-> list.html,
     cards |-> [c \in 1..Len(list.cards) |->
                  [name |-> list.cards[c].name,
                   spotsLeft |-> list.cards[c].spotsLeft,
                   emails |-> [k \in 1..Len(list.cards[c].participants) |->
                                  list.cards[c].participants[k].email]]]]

\* The participants the activity list shows, per activity.
ClientRoster == [c \in 1..Len(activitiesList.cards) |-> RosterView(activitiesList).cards[c].emails]

SessionCleared == localStorage = Null /\ authToken = Null /\ ~isAuthenticated

\* C1: while isAuthenticated is false, a signup submit or a delete click adds no
\* request to the network, leaves the session, the activity list and the
\* selector as they were, and puts the error-styled login-required notice of
\* its handler into messageDiv; and no step taken while isAuthenticated is
\* false adds a signup or unregister request.
C1_GateDeniesWithoutRequest ==
    [][(~isAuthenticated =>
            /\ NumRequests(net', "signup") <= NumRequests(net, "signup")
            /\ NumRequests(net', "unregister") <= NumRequests(net, "unregister"))
       /\ ((~isAuthenticated /\ last'.op \in MutationOps /\ last'.res \in TriggerResults) =>
            /\ net' = net
            /\ <<localStorage, authToken, isAuthenticated, authUI, usernameDisplay>>' =
                 <<localStorage, authToken, isAuthenticated, authUI, usernameDisplay>>
            /\ activitiesList' = activitiesList
            /\ activitySelect' = activitySelect
            /\ messageDiv' = [text |-> LoginRequired(last'.op), className |-> "error",
                              hidden |-> FALSE])]_vars

\* C1 witness: a delete click on a rendered button was denied.
C1_Witness ==
    /\ last.op = "unregister"
    /\ last.res = "denied"
    /\ activitiesList.html = "cards"
    /\ ~isAuthenticated

\* C2: after the verification of a stored token T is answered with
\* authenticated = false, localStorage holds no token, authToken is null, the
\* user info (with the username) is hidden and isAuthenticated is false.
C2_VerifyFalseResetsSession ==
    (last.op = "checkAuth" /\ last.res = "notAuthenticated") =>
        /\ localStorage = Null
        /\ authToken = Null
        /\ ~isAuthenticated
        /\ authUI.userInfo = "hidden"

\* C2 witness: the verification of a stored token was answered authenticated = false.
C2_Witness ==
    /\ last.op = "checkAuth"
    /\ last.res = "notAuthenticated"
    /\ last.tok \in Tokens
    /\ localStorage = Null

\* C3, as claimed: after the verification call failed at the network or the
\* body-parsing level, isAuthenticated is false and neither localStorage nor
\* authToken holds a token.
C3_VerifyFailureClearsToken ==
    (last.op = "checkAuth" /\ last.res \in {"transport", "parse"}) =>
        /\ ~isAuthenticated
        /\ localStorage = Null
        /\ authToken = Null

\* C4: right after a login response with a success status is handled,
\* localStorage and authToken both hold the token of the response,
\* isAuthenticated is true and the logged-in UI shows the username of the
\* response.
C4_LoginSuccessStoresToken ==
    (last.op = "login" /\ last.res = "ok") =>
        /\ localStorage = last.tok
        /\ authToken = last.tok
        /\ isAuthenticated
        /\ authUI = LoggedInUI
        /\ usernameDisplay = last.user

\* C4 witness: a login succeeded with a token other than the one stored at startup.
C4_Witness ==
    /\ last.op = "login"
    /\ last.res = "ok"
    /\ last.tok = "tokB"
    /\ localStorage = "tokB"

\* C5: a login response that is an error status, a rejected fetch or an
\* unparsable body leaves localStorage, authToken and isAuthenticated as they
\* were, and shows an error-styled login message: the body's detail when it
\* has one, a generic login-failed text otherwise.
C5_LoginFailureKeepsSession ==
    [][(last'.op = "login" /\ last'.res \in FailureResults) =>
            /\ localStorage' = localStorage
            /\ authToken' = authToken
            /\ isAuthenticated' = isAuthenticated
            /\ loginMessage'.className = "error"
            /\ ~loginMessage'.hidden
            /\ IF last'.res = "status" /\ last'.detail # Null
               THEN loginMessage'.text = last'.detail
               ELSE loginMessage'.text \in {"Login failed",
                                            "Login failed. Please try again."}]_vars

\* C5 witness: a login was refused with a detail while a token was stored.
C5_Witness ==
    /\ last.op = "login"
    /\ last.res = "status"
    /\ last.detail = "Invalid credentials"
    /\ loginMessage.text = "Invalid credentials"
    /\ localStorage = "tokA"

\* C6: whenever a logout request is in flight, a state follows in which
\* localStorage holds no token, authToken is null and isAuthenticated is
\* false, whether the logout fetch resolves or rejects.
C6_LogoutEventuallyClears == Pending("logout") ~> SessionCleared

\* C6 witness: a logout whose fetch was rejected has been handled.
C6_Witness ==
    /\ last.op = "logout"
    /\ last.res = "transport"
    /\ SessionCleared

\* C7: the step that handles a success response of a signup or an unregister
\* adds exactly one /activities request to the network, and no other step adds
\* one (in particular not the step that issues the signup or unregister).
C7_OneRefreshAfterSuccess ==
    [][IF last'.op \in MutationOps /\ last'.res = "ok"
       THEN NumRequests(net', "activities") = NumRequests(net, "activities") + 1
       ELSE NumRequests(net', "activities") <= NumRequests(net, "activities")]_vars

\* C7 witness: a signup succeeded and its refresh is in flight, not yet
\* handled by the server.
C7_Witness ==
    /\ last.op = "signup"
    /\ last.res = "ok"
    /\ \E i \in 1..Len(net) : net[i].kind = "activities" /\ net[i].status = "sent"

\* C8: what the activity list shows of the roster, and the selector's options,
\* change only in a step that handles an /activities response; and a signup or
\* unregister that fails adds no /activities request and leaves the activity
\* list exactly as it was.
C8_RosterChangesOnlyOnRefresh ==
    [][/\ (last'.op # "fetchActivities" =>
            /\ RosterView(activitiesList') = RosterView(activitiesList)
            /\ activitySelect' = activitySelect)
       /\ ((last'.op \in MutationOps /\ last'.res \in FailureResults) =>
            /\ NumRequests(net', "activities") = NumRequests(net, "activities")
            /\ activitiesList' = activitiesList)]_vars

\* C8 witness: an unregister the server had carried out failed at the client
\* (its response was lost), with the participant still listed.
C8_Witness ==
    /\ last.op = "unregister"
    /\ last.res = "transport"
    /\ activitiesList.html = "cards"
    /\ ClientRoster # serverRoster

\* C9, as claimed: when no register, unregister or refresh has failed, every
\* refresh has been handled and no request is in flight, the activity list
\* shows the server's roster.
C9_QuiescentRosterMatchesServer ==
    (cleanRun /\ net = <<>> /\ activitiesList.html = "cards") =>
        ClientRoster = serverRoster

\* C10, as claimed: messageDiv goes from shown to hidden only when the timer of
\* the notification it shows runs out, never by a timer an earlier
\* notification scheduled.
C10_OnlyOwnTimerHides ==
    [][(~messageDiv.hidden /\ messageDiv'.hidden) =>
            (last'.op = "timer" /\ last'.res = "own")]_vars

\* C11, as claimed: a notification shown in messageDiv is gone by the end of its
\* delay.  Every pending timer fires within 5000 ms of any later notification
\* and a notification's own timer within its delay, so the claim is that
\* messageDiv is never shown with no timer pending: nothing would hide it.
C11_ShownNotificationHasTimer == ~messageDiv.hidden => timers # {}

\* C12, as claimed: in every reachable state a verified session has its token
\* in memory and a username on display in the logged-in interface.
C12_VerifiedHasTokenAndUsername ==
    isAuthenticated =>
        /\ Truthy(authToken)
        /\ authUI = LoggedInUI
        /\ usernameDisplay \in Usernames

\* The names listed by a rendered list of cards, in order.
CardNames(list) == [c \in 1..Len(list.cards) |-> list.cards[c].name]

\* C13, as claimed: once a refresh has been rendered, the cards and the options
\* of activitySelect each list the activities of the rendered response exactly
\* once, with nothing left from earlier responses.
C13_ViewsHoldLatestRosterOnce ==
    activitiesList.html = "cards" =>
        /\ CardNames(activitiesList) = ActivityNames
        /\ activitySelect = CardNames(activitiesList)

\* A login has succeeded and no logout has been triggered: the flag is set
\* while the startup verification is unanswered, so a login set it, and no
\* logout request is in flight.
LoggedInByLogin ==
    /\ isAuthenticated
    /\ Truthy(localStorage)
    /\ Pending("verify")
    /\ ~Pending("logout")

\* C14, as claimed: after a successful login no step other than a logout (or a
\* further login) ends the verified session or changes the persisted token; in
\* particular the late answer to the startup verification does neither.
C14_LoginOutlivesStaleVerify ==
    [][(LoggedInByLogin /\ last'.op \notin {"logout", "login"})
          => (isAuthenticated' /\ localStorage' = localStorage)]_vars

\* C15: isAuthenticated is false when the page has loaded, whatever token is
\* stored, and a step takes it from false to true only when it handles a
\* verification response with authenticated = true or a login response with a
\* success status; no failure branch, error branch or timer sets it.
C15_VerifiedSetOnlyBySuccess ==
    /\ ~isAuthenticated
    /\ [][(~isAuthenticated /\ isAuthenticated') =>
              \/ (last'.op = "checkAuth" /\ last'.res = "authenticated")
              \/ (last'.op = "login" /\ last'.res = "ok")]_vars

\* A verification response with authenticated = true has set the flag.
C15_Witness ==
    /\ isAuthenticated
    /\ last.op = "checkAuth"
    /\ last.res = "authenticated"

\* C16: after every handler step of one page the token in memory equals the
\* stored token: both absent or both the same value, under every interleaving
\* of the verification, login and logout responses.
C16_MemoryTokenEqualsStored == authToken = localStorage

\* A login stored a token and the startup verification then failed in
\* transport or parsing: both copies still hold the login's token.
C16_Witness ==
    /\ last.op = "checkAuth"
    /\ last.res \in {"transport", "parse"}
    /\ authToken = "tokB"
    /\ localStorage = "tokB"

\* The display values of the delete buttons now in the document.
DeleteButtonDisplays ==
    {activitiesList.cards[c].participants[p].display :
        <<c, p>> \in {cp \in (1..Len(activitiesList.cards)) \X (1..max_participants) :
                        cp[2] <= Len(activitiesList.cards[cp[1]].participants)}}

\* C17: after every handler step every rendered delete button is visible if
\* and only if isAuthenticated is true, in whatever order the verification,
\* login, logout and roster responses are handled.
C17_DeleteButtonsFollowVerified ==
    DeleteButtonDisplays \subseteq {IF isAuthenticated THEN "inline" ELSE "none"}

\* A login response was handled after the roster had been rendered for an
\* unverified session: the buttons already in the document were switched on.
C17_Witness ==
    /\ last.op = "login"
    /\ last.res = "ok"
    /\ DeleteButtonDisplays = {"inline"}

\* C18: when the page has loaded, exactly one roster request has been issued,
\* together with a verification request if and only if a token was stored; the
\* roster request does not wait for the verification, whose response issues no
\* request, and no later step issues a verification.
C18_StartupIssuesOneRosterFetch ==
    /\ NumRequests(net, "activities") = 1
    /\ NumRequests(net, "verify") = (IF Truthy(localStorage) THEN 1 ELSE 0)
    /\ [][/\ NumRequests(net', "verify") <= NumRequests(net, "verify")
          /\ (last'.op = "checkAuth" =>
                NumRequests(net', "activities") = NumRequests(net, "activities"))]_vars

\* The startup roster has been rendered while the verification is unanswered.
C18_Witness ==
    /\ Pending("verify")
    /\ userEvents = 0
    /\ last.op = "fetchActivities"
    /\ activitiesList.html = "cards"

\* C19: a roster refresh that fails in transport or parsing leaves the load
\* failure message in activitiesList with none of the cards shown before, and
\* changes neither the session nor the notification.
C19_RefreshFailureShowsOnlyMessage ==
    [][(last'.op = "fetchActivities" /\ last'.res \in {"transport", "parse"}) =>
          /\ activitiesList' = [html |-> LoadFailure, cards |-> <<>>]
          /\ UNCHANGED <<localStorage, authToken, isAuthenticated, authUI,
                         usernameDisplay>>
          /\ UNCHANGED <<messageDiv, timers>>]_vars

\* A refresh failed while cards and a notification were on display.
C19_Witness ==
    /\ last.op = "fetchActivities"
    /\ last.res \in {"transport", "parse"}
    /\ activitySelect # <<>>
    /\ ~messageDiv.hidden
    /\ activitiesList.html = LoadFailure

====
